---------------------------- MODULE Spec2Model ----------------------------
(***************************************************************************)
(* A model of copy_aliases.py: the alias-aware recursive copy of a macOS   *)
(* folder.  Paths are sequences of characters; a character is a one-letter *)
(* string, except the three Greek sigmas, written by name.                 *)
(***************************************************************************)
EXTENDS Integers, Sequences, FiniteSets, TLC

VARIABLES
    kind,     \* source path -> "dir", "file", "alias", "symlink" or "absent"
    linkTo,   \* symbolic link -> the path it points to
    probe,    \* path -> whether mdls reports the alias content type for it
    resolver, \* path -> what one osascript resolution of it returns
    args,     \* sys.platform, the command line and what the destination is
    pc,       \* "start", "run" or "done": where main is
    exitCode, \* the process's exit code once pc = "done"
    stack,    \* the active copy_directory calls, innermost last
    dtree,    \* destination path -> what the run has put (or found) there
    last,     \* what the latest copy_item call did
    visited,  \* the source paths copy_item has been called on
    run,      \* 1 for the first run, 2 for a second run on the same source
    first,    \* the first run's result, kept for the second
    ext,      \* one evaluation of ensure_target_extension (and its re-application)
    chain     \* one call of resolve_alias_chain, loop position included

envVars == <<kind, linkTo, probe, resolver, args>>
progVars == <<pc, exitCode, stack, dtree, last, visited>>
twiceVars == <<run, first>>
vars == <<envVars, progVars, twiceVars, ext, chain>>

EmptyFun == [x \in {} |-> x]
NoLast == [branch |-> "none"]

\* No run of main: what the variables of the copy are while a single
\* function is evaluated on its own.
NoProgram ==
    /\ kind = EmptyFun /\ linkTo = EmptyFun /\ args = EmptyFun
    /\ pc = "idle" /\ exitCode = -1 /\ stack = <<>> /\ dtree = EmptyFun
    /\ last = NoLast /\ visited = {} /\ run = 0 /\ first = EmptyFun

(***************************************************************************)
(* Strings: str.lower, str.endswith, os.path.splitext                      *)
(***************************************************************************)
NoneVal == <<"None">>

SIGMA == "SIGMA"      \* U+03A3 GREEK CAPITAL LETTER SIGMA
sigma == "sigma"      \* U+03C3 GREEK SMALL LETTER SIGMA
fsigma == "fsigma"    \* U+03C2 GREEK SMALL LETTER FINAL SIGMA

UpperLetters == {"A", "X"}
LowerLetters == {"a", "b", "c", "d", "e", "f", "l", "m", "n", "o", "r", "s",
                 "t", "u", "x"}

\* Unicode property Cased, on the characters of the model.
IsCased(c) == c \in UpperLetters \cup LowerLetters \cup {SIGMA, sigma, fsigma}

\* Unicode property Case_Ignorable: of the model's characters, the full stop.
IsCaseIgnorable(c) == c = "."

\* The lower-case mapping of one character that is not the capital sigma.
ToLowerChar(c) ==
    CASE c = "A" -> "a"
      [] c = "X" -> "x"
      [] OTHER -> c

\* CPython's handle_capital_sigma: the capital sigma at position i of s is in
\* Final_Sigma context when a cased character precedes it (case-ignorable ones
\* skipped) and no cased character follows it (case-ignorable ones skipped).
FinalSigma(s, i) ==
    LET Before == {j \in 1..(i - 1) : ~IsCaseIgnorable(s[j])}
        After == {j \in (i + 1)..Len(s) : ~IsCaseIgnorable(s[j])}
        prev == CHOOSE j \in Before : \A k \in Before : k <= j
        next == CHOOSE j \in After : \A k \in After : j <= k
    IN  /\ Before # {}
        /\ IsCased(s[prev])
        /\ (After = {} \/ ~IsCased(s[next]))

\* str.lower()
Lower(s) ==
    [i \in 1..Len(s) |->
        IF s[i] = SIGMA
        THEN (IF FinalSigma(s, i) THEN fsigma ELSE sigma)
        ELSE ToLowerChar(s[i])]

\* str.endswith(suffix)
EndsWith(s, suffix) ==
    /\ Len(suffix) <= Len(s)
    /\ SubSeq(s, Len(s) - Len(suffix) + 1, Len(s)) = suffix

\* str.rfind(c), 1-based, 0 when c does not occur
RFind(s, c) ==
    LET Hits == {i \in 1..Len(s) : s[i] = c}
    IN  IF Hits = {} THEN 0 ELSE CHOOSE i \in Hits : \A j \in Hits : j <= i

\* os.path.splitext(p)[1]: the text from the last dot of the last component,
\* unless only dots precede it in that component.
SplitExt(p) ==
    LET sepIndex == RFind(p, "/")
        dotIndex == RFind(p, ".")
    IN  IF /\ dotIndex > sepIndex
           /\ \E k \in (sepIndex + 1)..(dotIndex - 1) : p[k] # "."
        THEN SubSeq(p, dotIndex, Len(p))
        ELSE <<>>

(***************************************************************************)
(* ensure_target_extension                                                 *)
(***************************************************************************)
\* isdir is the answer of os.path.isdir(target_path).
ensure_target_extension(dest_path, target_path, isdir) ==
    LET target_ext == SplitExt(target_path)
    IN  IF isdir THEN dest_path
        ELSE IF target_ext = <<>> THEN dest_path
        ELSE IF EndsWith(Lower(dest_path), Lower(target_ext)) THEN dest_path
        ELSE dest_path \o target_ext

MaxStrLen == 3

ExtAlphabet == {"a", "A", ".", "/", SIGMA}

RECURSIVE StrsOfLen(_, _)
StrsOfLen(A, n) ==
    IF n = 0 THEN {<<>>}
    ELSE {Append(s, c) : s \in StrsOfLen(A, n - 1), c \in A}

StrsUpTo(A, n) == UNION {StrsOfLen(A, k) : k \in 0..n}

ExtIdle == [pc |-> "idle"]

ExtInit ==
    /\ ext \in [pc : {"start"},
                dest : StrsUpTo(ExtAlphabet, MaxStrLen),
                target : StrsUpTo(ExtAlphabet, MaxStrLen),
                isdir : BOOLEAN]
    /\ chain = [pc |-> "idle"]
    /\ probe = EmptyFun
    /\ resolver = EmptyFun
    /\ NoProgram

\* dest_path = ensure_target_extension(dest_path, target)
ExtApply ==
    /\ ext.pc = "start"
    /\ ext' = [ext EXCEPT !.pc = "once"] @@
              [out1 |-> ensure_target_extension(ext.dest, ext.target, ext.isdir)]
    /\ UNCHANGED <<envVars, progVars, twiceVars, chain>>

\* the same call on its own result
ExtApplyAgain ==
    /\ ext.pc = "once"
    /\ ext' = [ext EXCEPT !.pc = "twice"] @@
              [out2 |-> ensure_target_extension(ext.out1, ext.target, ext.isdir)]
    /\ UNCHANGED <<envVars, progVars, twiceVars, chain>>

ExtNext == ExtApply \/ ExtApplyAgain

SpecExt == ExtInit /\ [][ExtNext]_vars

(***************************************************************************)
(* The claim about ensure_target_extension                                 *)
(***************************************************************************)
\* Simple case folding: what "compared case-insensitively" means.
CaseFold(s) ==
    [i \in 1..Len(s) |->
        IF s[i] \in {SIGMA, sigma, fsigma} THEN sigma ELSE ToLowerChar(s[i])]

EndsWithCI(s, suffix) == EndsWith(CaseFold(s), CaseFold(suffix))

\* The name the specification gives: dest, or dest with target's extension.
NameFor(dest, target, isdir) ==
    IF isdir \/ SplitExt(target) = <<>> \/ EndsWithCI(dest, SplitExt(target))
    THEN dest
    ELSE dest \o SplitExt(target)

\* C7: ensure_target_extension returns dest unchanged for a directory target,
\* a target without extension or a dest that already ends with the extension
\* (case-insensitively), appends the extension otherwise, and is idempotent.
C7_ExtensionOnce ==
    ext.pc = "twice" =>
        /\ ext.out1 = NameFor(ext.dest, ext.target, ext.isdir)
        /\ ext.out2 = ext.out1

(***************************************************************************)
(* is_alias_file, resolve_alias, resolve_alias_chain                       *)
(***************************************************************************)
\* The probe's answer; a failed query is an answer of FALSE.
is_alias_file(path) == probe[path]

\* One hop: a path, NoneVal (non-zero exit) or <<>> (empty output).
resolve_alias(path) == resolver[path]

\* Python's truth value of an Optional[str].
Truthy(x) == x # NoneVal /\ x # <<>>

ChainStart(path, max_depth) ==
    [pc |-> "loop", path |-> path, max_depth |-> max_depth, current |-> path,
     i |-> 0, hops |-> 0, result |-> NoneVal]

\* One pass through the loop of resolve_alias_chain, or the return after it;
\* first as it would be without the test for an alias of itself, then
\* returning the current path when a hop fails, then with one pass too many.
ChainStepNoSelfCheck(c) ==
    IF c.i >= c.max_depth
    THEN [c EXCEPT !.pc = "ret", !.result = c.current]
    ELSE IF ~is_alias_file(c.current)
    THEN [c EXCEPT !.pc = "ret", !.result = c.current]
    ELSE LET resolved == resolve_alias(c.current)
         IN  IF ~Truthy(resolved)
             THEN [c EXCEPT !.pc = "ret", !.result = NoneVal, !.hops = @ + 1]
             ELSE [c EXCEPT !.current = resolved, !.i = @ + 1, !.hops = @ + 1]

ChainStepFailureReturnsCurrent(c) ==
    IF c.i >= c.max_depth
    THEN [c EXCEPT !.pc = "ret", !.result = c.current]
    ELSE IF ~is_alias_file(c.current)
    THEN [c EXCEPT !.pc = "ret", !.result = c.current]
    ELSE LET resolved == resolve_alias(c.current)
         IN  IF ~Truthy(resolved)
             THEN [c EXCEPT !.pc = "ret", !.result = c.current, !.hops = @ + 1]
             ELSE IF resolved = c.current
             THEN [c EXCEPT !.pc = "ret", !.result = c.current, !.hops = @ + 1]
             ELSE [c EXCEPT !.current = resolved, !.i = @ + 1, !.hops = @ + 1]

ChainStepOffByOne(c) ==
    IF c.i > c.max_depth
    THEN [c EXCEPT !.pc = "ret", !.result = c.current]
    ELSE IF ~is_alias_file(c.current)
    THEN [c EXCEPT !.pc = "ret", !.result = c.current]
    ELSE LET resolved == resolve_alias(c.current)
         IN  IF ~Truthy(resolved)
             THEN [c EXCEPT !.pc = "ret", !.result = NoneVal, !.hops = @ + 1]
             ELSE IF resolved = c.current
             THEN [c EXCEPT !.pc = "ret", !.result = c.current, !.hops = @ + 1]
             ELSE [c EXCEPT !.current = resolved, !.i = @ + 1, !.hops = @ + 1]

ChainStep(c) ==
    IF c.i >= c.max_depth
    THEN [c EXCEPT !.pc = "ret", !.result = c.current]
    ELSE IF ~is_alias_file(c.current)
    THEN [c EXCEPT !.pc = "ret", !.result = c.current]
    ELSE LET resolved == resolve_alias(c.current)
         IN  IF ~Truthy(resolved)
             THEN [c EXCEPT !.pc = "ret", !.result = NoneVal, !.hops = @ + 1]
             ELSE IF resolved = c.current
             THEN [c EXCEPT !.pc = "ret", !.result = c.current, !.hops = @ + 1]
             ELSE [c EXCEPT !.current = resolved, !.i = @ + 1, !.hops = @ + 1]

RECURSIVE ChainRun(_)
ChainRun(c) == IF c.pc = "ret" THEN c ELSE ChainRun(ChainStep(c))

\* The whole call: its result and the number of one-hop resolutions it made.
resolve_alias_chain(path, max_depth) == ChainRun(ChainStart(path, max_depth))

NumChainPaths == 3
MaxDepthArg == 3

ChainPaths == {<<"/", "p">> \o [k \in 1..n |-> "p"] : n \in 1..NumChainPaths}

ChainInit ==
    /\ probe \in [ChainPaths -> BOOLEAN]
    /\ resolver \in [ChainPaths -> ChainPaths \cup {NoneVal, <<>>}]
    /\ \A p \in ChainPaths : ~probe[p] => resolver[p] = NoneVal
    /\ \E p \in ChainPaths, d \in 0..MaxDepthArg : chain = ChainStart(p, d)
    /\ ext = ExtIdle
    /\ NoProgram

ChainIteration ==
    /\ chain.pc = "loop"
    /\ chain' = ChainStep(chain)
    /\ UNCHANGED <<envVars, progVars, twiceVars, ext>>

ChainNext == ChainIteration

\* The loop is straight-line code: a pass that can be taken is taken.
SpecChain == ChainInit /\ [][ChainNext]_vars /\ WF_vars(ChainNext)

RECURSIVE Hop(_, _)
\* The path n successful hops after p.
Hop(p, n) ==
    IF n = 0 THEN p
    ELSE LET q == Hop(p, n - 1)
         IN  IF q \in DOMAIN resolver THEN resolver[q] ELSE NoneVal

\* More than d aliases from p on, each of the first d resolving elsewhere.
LongChain(p, d) ==
    /\ \A k \in 0..(d - 1) :
          /\ probe[Hop(p, k)]
          /\ Truthy(Hop(p, k + 1))
          /\ Hop(p, k + 1) # Hop(p, k)
    /\ probe[Hop(p, d)]

C4_Safe ==
    /\ chain.hops <= chain.max_depth
    /\ chain.i <= chain.max_depth
    /\ chain.pc = "ret" => chain.result \in ChainPaths \cup {NoneVal}
    /\ (chain.pc = "ret" /\ LongChain(chain.path, chain.max_depth)) =>
          /\ chain.hops = chain.max_depth
          /\ chain.result = Hop(chain.path, chain.max_depth)

\* C4: resolve_alias_chain returns after at most max_depth one-hop
\* resolutions on every alias graph; on a chain of more than max_depth
\* aliases whose hops all lead elsewhere it makes exactly max_depth hops and
\* returns the path the last hop reached.
C4_ChainBounded == []C4_Safe /\ <>(chain.pc = "ret")

C4_Witness ==
    /\ chain.pc = "ret"
    /\ chain.max_depth >= 2
    /\ LongChain(chain.path, chain.max_depth)
    /\ chain.hops = chain.max_depth
    /\ chain.result # chain.path

(***************************************************************************)
(* The file system the copy runs on                                        *)
(***************************************************************************)
MaxDepth == 10        \* resolve_alias_chain's default max_depth
ChainLen == 11        \* the aliases /c/c, /c/cc, ... that form one long chain
RecursionLimit == 4   \* the copy_directory calls Python's stack has room for

SrcRoot == <<"/", "s">>
EntryA == <<"/", "s", "/", "a">>                   \* an alias, always
EntryAx == <<"/", "s", "/", "a", ".", "x">>        \* its sibling a.x
EntryD == <<"/", "s", "/", "d">>                   \* a sub-directory
EntryU == <<"/", "s", "/", "d", "/", "u", ".", SIGMA>>
NotADir == <<"/", "f">>                            \* a regular file
TFile == <<"/", "t", "/", "r", ".", "x">>
TFileUp == <<"/", "t", "/", "r", ".", "X">>
TNoExt == <<"/", "t", "/", "n">>
TSig == <<"/", "t", "/", "u", ".", SIGMA>>
TDir == <<"/", "t", "/", "e">>
TDirChild == <<"/", "t", "/", "e", "/", "c">>
DestO == <<"/", "o">>
DestRel == <<"o">>                                 \* the same, typed relative
DestSx == <<"/", "s", "x">>
LinkToSrc == <<"/", "m">>                          \* a symlink to /s
LinkInside == <<"/", "m", "m">>                    \* a symlink to /s/d
Cwd == <<"/">>

ChainNode(i) == <<"/", "c", "/">> \o [k \in 1..i |-> "c"]
ChainNodes == {ChainNode(i) : i \in 1..ChainLen}

SourcePaths ==
    {SrcRoot, EntryA, EntryAx, EntryD, EntryU, NotADir, TFile, TFileUp,
     TNoExt, TSig, TDir, TDirChild, LinkToSrc, LinkInside} \cup ChainNodes

\* os.path.dirname and os.path.basename
Dirname(p) ==
    LET i == RFind(p, "/")
    IN  IF i = 0 THEN <<>> ELSE IF i = 1 THEN <<"/">> ELSE SubSeq(p, 1, i - 1)

Basename(p) == SubSeq(p, RFind(p, "/") + 1, Len(p))

\* os.path.join(a, b) for a relative b
Join(a, b) == IF a[Len(a)] = "/" THEN a \o b ELSE a \o <<"/">> \o b

\* os.path.abspath of a path without ".", ".." or doubled separators
Abspath(p) == IF p[1] = "/" THEN p ELSE Join(Cwd, p)

\* os.path.realpath: of the model's paths, only the two links resolve elsewhere
RealPath(p) ==
    CASE p = LinkToSrc -> SrcRoot
      [] p = LinkInside -> EntryD
      [] OTHER -> p

RECURSIVE Comps(_, _, _)
\* the components of p from position i on, cur being the one in progress
Comps(p, i, cur) ==
    IF i > Len(p) THEN (IF cur = <<>> THEN <<>> ELSE <<cur>>)
    ELSE IF p[i] = "/"
    THEN (IF cur = <<>> THEN <<>> ELSE <<cur>>) \o Comps(p, i + 1, <<>>)
    ELSE Comps(p, i + 1, Append(cur, p[i]))

RECURSIVE JoinComps(_)
JoinComps(cs) ==
    IF cs = <<>> THEN <<>>
    ELSE IF Len(cs) = 1 THEN cs[1]
    ELSE cs[1] \o <<"/">> \o JoinComps(Tail(cs))

\* os.path.commonpath([a, b]) of two absolute paths
CommonPath(a, b) ==
    LET ca == Comps(a, 1, <<>>)
        cb == Comps(b, 1, <<>>)
        Same == {n \in 0..Len(ca) :
                    n <= Len(cb) /\ \A k \in 1..n : ca[k] = cb[k]}
        n == CHOOSE m \in Same : \A k \in Same : k <= m
    IN  <<"/">> \o JoinComps(SubSeq(ca, 1, n))

\* os.path.islink, os.path.isdir (which follows links), on the source side
SrcIsLink(p) == p \in DOMAIN kind /\ kind[p] = "symlink"

SrcIsDir(p) ==
    /\ p \in DOMAIN kind
    /\ \/ kind[p] = "dir"
       \/ kind[p] = "symlink" /\ kind[linkTo[p]] = "dir"

\* os.scandir(src_dir): the names of the entries of a directory
Scandir(src_dir) ==
    {Basename(p) : p \in {q \in DOMAIN kind :
                            kind[q] # "absent" /\ Dirname(q) = src_dir}}

(***************************************************************************)
(* The inputs: a source tree, the aliases' answers, a command line         *)
(***************************************************************************)
\* What /s/a resolves to, or "noprobe": it is an alias the probe misses.
AOptions ==
    {TFile, TNoExt, TDir, SrcRoot, EntryA, NoneVal, <<>>, <<"noprobe">>}
        \cup ChainNodes

\* What the last alias of the chain resolves to.
ChainEnds == {TFile, NoneVal, ChainNode(ChainLen), ChainNode(1)}

\* What /s/a.x is; a link points to a file or to a directory; an alias leads
\* to /t/r.X, to itself or nowhere.
AxOptions ==
    {"absent", "file", "dir", "linkfile", "linkdir", "alias", "aliasself",
     "aliasfail"}

\* What /s/d is: absent, or a directory holding u.SIGMA, which is a file or
\* an alias of /t/u.SIGMA, of itself or of /s/d.
DOptions == {<<"absent">>, <<"file">>, TSig, EntryU, EntryD}

CommandLines ==
    {[platform |-> "linux", source |-> SrcRoot, destination |-> DestO, dest |-> "absent"],
     [platform |-> "darwin", source |-> NotADir, destination |-> DestO, dest |-> "absent"],
     [platform |-> "darwin", source |-> SrcRoot, destination |-> SrcRoot, dest |-> "dir"],
     [platform |-> "darwin", source |-> SrcRoot, destination |-> LinkToSrc, dest |-> "link"],
     [platform |-> "darwin", source |-> SrcRoot, destination |-> EntryD, dest |-> "inside"],
     [platform |-> "darwin", source |-> SrcRoot, destination |-> LinkInside, dest |-> "link"],
     [platform |-> "darwin", source |-> SrcRoot, destination |-> DestO, dest |-> "file"],
     [platform |-> "darwin", source |-> SrcRoot, destination |-> DestO, dest |-> "absent"],
     [platform |-> "darwin", source |-> SrcRoot, destination |-> DestRel, dest |-> "dir"],
     [platform |-> "darwin", source |-> SrcRoot, destination |-> DestSx, dest |-> "absent"]}

KindFor(a, ax, d) ==
    [p \in SourcePaths |->
        CASE p \in {SrcRoot, TDir} -> "dir"
          [] p \in {NotADir, TFile, TFileUp, TNoExt, TSig, TDirChild} -> "file"
          [] p \in ChainNodes \cup {EntryA} -> "alias"
          [] p \in {LinkToSrc, LinkInside} -> "symlink"
          [] p = EntryAx ->
                (IF ax \in {"linkfile", "linkdir"} THEN "symlink"
                 ELSE IF ax \in {"alias", "aliasself", "aliasfail"} THEN "alias"
                 ELSE ax)
          [] p = EntryD -> (IF d = <<"absent">> THEN "absent" ELSE "dir")
          [] p = EntryU -> (IF d = <<"absent">> THEN "absent"
                            ELSE IF d = <<"file">> THEN "file" ELSE "alias")]

LinkFor(ax) ==
    [p \in {EntryAx, LinkToSrc, LinkInside} |->
        CASE p = LinkToSrc -> SrcRoot
          [] p = LinkInside -> EntryD
          [] OTHER -> (IF ax = "linkdir" THEN TDir ELSE TFile)]

ResolverFor(a, cend, ax, d) ==
    [p \in SourcePaths |->
        CASE p = EntryA -> (IF a = <<"noprobe">> THEN NoneVal ELSE a)
          [] p \in ChainNodes \ {ChainNode(ChainLen)} -> ChainNode(Len(p) - 2)
          [] p = ChainNode(ChainLen) -> cend
          [] p = EntryAx -> (IF ax = "alias" THEN TFileUp
                             ELSE IF ax = "aliasself" THEN EntryAx
                             ELSE NoneVal)
          [] p = EntryU -> (IF d \in {TSig, EntryU, EntryD} THEN d ELSE NoneVal)
          [] OTHER -> NoneVal]

\* The destination as main finds it: nothing, an empty directory or a file.
InitialTree(a) ==
    LET destination == Abspath(a.destination)
    IN  CASE a.dest = "dir" -> (destination :> [kind |-> "dir"])
          [] a.dest = "inside" -> (destination :> [kind |-> "dir"])
          [] a.dest = "file" -> (destination :> [kind |-> "file", content |-> destination])
          [] a.dest = "link" -> (destination :> [kind |-> "symlink", to |-> RealPath(destination)])
          [] OTHER -> EmptyFun

InitFor(as, ds, cmds) ==
    /\ \E a \in as, cend \in ChainEnds, ax \in AxOptions, d \in ds :
          /\ a \in ChainNodes \/ cend = TFile
          /\ kind = KindFor(a, ax, d)
          /\ linkTo = LinkFor(ax)
          /\ resolver = ResolverFor(a, cend, ax, d)
          /\ probe = [p \in SourcePaths |->
                        kind[p] = "alias" /\ ~(p = EntryA /\ a = <<"noprobe">>)]
    /\ args \in cmds
    /\ args.dest = "inside" => kind[EntryD] = "dir"
    /\ pc = "start"
    /\ exitCode = -1
    /\ stack = <<>>
    /\ dtree = InitialTree(args)
    /\ last = NoLast
    /\ visited = {}
    /\ run = 1
    /\ first = EmptyFun
    /\ ext = ExtIdle
    /\ chain = [pc |-> "idle"]

Init == InitFor(AOptions, DOptions, CommandLines)

(***************************************************************************)
(* ensure_dir, copy_file (with shutil.copy2), copy_directory               *)
(***************************************************************************)
\* os.path.exists and os.path.isdir of a destination path; both follow links.
DExists(t, p) ==
    /\ p \in DOMAIN t
    /\ t[p].kind = "symlink" => kind[t[p].to] # "absent"

DIsDir(t, p) ==
    /\ p \in DOMAIN t
    /\ \/ t[p].kind = "dir"
       \/ t[p].kind = "symlink" /\ kind[t[p].to] = "dir"

\* ensure_dir(path) on tree t: the tree after it, or that it raised ValueError.
ensure_dir(t, path) ==
    IF DExists(t, path)
    THEN [raised |-> ~DIsDir(t, path), tree |-> t]
    ELSE [raised |-> FALSE, tree |-> (path :> [kind |-> "dir"]) @@ t]

\* The file whose bytes a read of src yields.
ContentOf(src) == IF SrcIsLink(src) THEN linkTo[src] ELSE src

\* shutil.copy2(src, dst, follow_symlinks=...): into dst when dst is a
\* directory; SameFileError when dst is a link to src; a link is re-created
\* (FileExistsError when dst exists) unless links are followed; otherwise the
\* bytes are written to dst, through dst when dst is itself a link.
copy2(t, src, dst, follow_symlinks) ==
    LET dst2 == IF DIsDir(t, dst) THEN Join(dst, Basename(src)) ELSE dst
        there == dst2 \in DOMAIN t
        same == there /\ t[dst2].kind = "symlink" /\ t[dst2].to = ContentOf(src)
    IN  IF same THEN [raised |-> TRUE, tree |-> t, wrote |-> NoneVal]
        ELSE IF ~follow_symlinks /\ SrcIsLink(src)
        THEN (IF there
              THEN [raised |-> TRUE, tree |-> t, wrote |-> NoneVal]
              ELSE [raised |-> FALSE, wrote |-> dst2,
                    tree |-> (dst2 :> [kind |-> "symlink", to |-> linkTo[src]]) @@ t])
        ELSE IF there /\ t[dst2].kind = "symlink"
        THEN [raised |-> FALSE, wrote |-> dst2,
              tree |-> (dst2 :> [kind |-> "symlink", to |-> t[dst2].to,
                                 content |-> ContentOf(src)]) @@ t]
        ELSE [raised |-> FALSE, wrote |-> dst2,
              tree |-> (dst2 :> [kind |-> "file", content |-> ContentOf(src)]) @@ t]

copy_file(t, src_path, dest_path, follow_symlinks) ==
    LET parent == Dirname(dest_path)
        e == IF parent # <<>> THEN ensure_dir(t, parent)
             ELSE [raised |-> FALSE, tree |-> t]
    IN  IF e.raised THEN [raised |-> TRUE, tree |-> t, wrote |-> NoneVal]
        ELSE copy2(e.tree, src_path, dest_path, follow_symlinks)

\* copy_directory up to its loop: the directory is ensured and the entries
\* are listed; the loop's passes are the copy_item steps below.
copy_directory(t, src_dir, dest_dir) ==
    LET e == ensure_dir(t, dest_dir)
    IN  [raised |-> e.raised, tree |-> e.tree,
         frame |-> [src |-> src_dir, dst |-> dest_dir, todo |-> Scandir(src_dir)]]

(***************************************************************************)
(* main                                                                    *)
(***************************************************************************)
\* The checks of main that return 1; first, as they would be without the
\* commonpath test.
MainRejectsWithoutCommonPath(a) ==
    LET source == Abspath(a.source)
        destination == Abspath(a.destination)
        source_real == RealPath(source)
        destination_real == RealPath(destination)
    IN  \/ a.platform # "darwin"
        \/ ~SrcIsDir(source)
        \/ source_real = destination_real

MainRejects(a) ==
    LET source == Abspath(a.source)
        destination == Abspath(a.destination)
        source_real == RealPath(source)
        destination_real == RealPath(destination)
    IN  \/ a.platform # "darwin"
        \/ ~SrcIsDir(source)
        \/ source_real = destination_real
        \/ CommonPath(source_real, destination_real) = source_real

Finish(code) ==
    /\ pc' = "done"
    /\ exitCode' = code
    /\ stack' = <<>>

\* main prints an error and returns 1.
MainReject ==
    /\ pc = "start"
    /\ MainRejects(args)
    /\ Finish(1)
    /\ UNCHANGED <<dtree, last, visited>>
    /\ UNCHANGED <<envVars, twiceVars, ext, chain>>

\* ensure_dir(destination) raises: the exception ends the process with code 1.
MainEnsureRaises ==
    /\ pc = "start"
    /\ ~MainRejects(args)
    /\ ensure_dir(dtree, Abspath(args.destination)).raised
    /\ Finish(1)
    /\ UNCHANGED <<dtree, last, visited>>
    /\ UNCHANGED <<envVars, twiceVars, ext, chain>>

\* main reaches copy_directory(source, destination), which enters its loop.
MainCopy ==
    /\ pc = "start"
    /\ ~MainRejects(args)
    /\ LET e == ensure_dir(dtree, Abspath(args.destination))
           c == copy_directory(e.tree, Abspath(args.source), Abspath(args.destination))
       IN  /\ ~e.raised
           /\ ~c.raised
           /\ dtree' = c.tree
           /\ stack' = <<c.frame>>
    /\ pc' = "run"
    /\ UNCHANGED <<exitCode, last, visited>>
    /\ UNCHANGED <<envVars, twiceVars, ext, chain>>

(***************************************************************************)
(* copy_target, copy_item                                                  *)
(***************************************************************************)
\* copy_target's first lines: the path it copies from, and the hops it made;
\* first as they would be if the alias test were missing.
copy_target_as_given(src_path) == [src |-> src_path, hops |-> 0]

copy_target(src_path) ==
    IF is_alias_file(src_path)
    THEN LET r == resolve_alias_chain(src_path, MaxDepth)
         IN  [src |-> IF Truthy(r.result) THEN r.result ELSE src_path,
              hops |-> r.hops]
    ELSE [src |-> src_path, hops |-> 0]

\* What copy_item(src_path, dest_path) decides before it touches the
\* destination: its branch, whether it warns, the alias's target, the
\* destination name, the path whose content it copies and how.
copy_item(src_path, dest_path) ==
    IF is_alias_file(src_path)
    THEN LET r == resolve_alias_chain(src_path, MaxDepth)
         IN  IF ~Truthy(r.result)
             THEN [branch |-> "unresolved", warned |-> TRUE, hops |-> r.hops,
                   hops1 |-> r.hops, target |-> NoneVal, named |-> dest_path,
                   content |-> src_path, follow |-> FALSE, isdir |-> FALSE]
             ELSE LET t == copy_target(r.result)
                  IN  [branch |-> "resolved", warned |-> FALSE,
                       hops |-> r.hops + t.hops, hops1 |-> r.hops,
                       target |-> r.result,
                       named |-> ensure_target_extension(dest_path, r.result,
                                                         SrcIsDir(r.result)),
                       content |-> t.src, follow |-> TRUE,
                       isdir |-> SrcIsDir(t.src)]
    ELSE IF SrcIsDir(src_path) /\ ~SrcIsLink(src_path)
    THEN [branch |-> "dir", warned |-> FALSE, hops |-> 0, hops1 |-> 0,
          target |-> NoneVal,
          named |-> dest_path, content |-> src_path, follow |-> FALSE,
          isdir |-> TRUE]
    ELSE [branch |-> "file", warned |-> FALSE, hops |-> 0, hops1 |-> 0,
          target |-> NoneVal,
          named |-> dest_path, content |-> src_path, follow |-> FALSE,
          isdir |-> FALSE]

Top == stack[Len(stack)]

\* One pass of copy_directory's loop: copy_item on the entry called name, the
\* branch it takes being the given one.
CopyItemStep(name, branch) ==
    \E src_path \in {Join(Top.src, name)}, dest_path \in {Join(Top.dst, name)} :
    \E plan \in {copy_item(src_path, dest_path)} :
    \E overflow \in {plan.isdir /\ Len(stack) >= RecursionLimit} :
    \E r \in {IF plan.isdir
              THEN copy_directory(dtree, plan.content, plan.named)
              ELSE copy_file(dtree, plan.content, plan.named, plan.follow)} :
    \E raised \in {overflow \/ r.raised} :
        /\ plan.branch = branch
        /\ visited' = visited \cup {src_path}
        /\ last' = plan @@ [src |-> src_path, dest |-> dest_path,
                            raised |-> raised, again |-> src_path \in visited,
                            pushed |-> IF plan.isdir /\ ~raised THEN r.frame
                                       ELSE NoneVal,
                            wrote |-> IF plan.isdir THEN NoneVal ELSE r.wrote]
        /\ dtree' = IF overflow THEN dtree ELSE r.tree
        /\ IF raised
           THEN Finish(1)
           ELSE /\ stack' =
                     LET rest == [stack EXCEPT ![Len(stack)].todo = @ \ {name}]
                     IN  IF plan.isdir THEN Append(rest, r.frame) ELSE rest
                /\ UNCHANGED <<pc, exitCode>>

\* An alias whose chain does not resolve: a warning, and the alias file copied.
CopyItemUnresolvedAlias ==
    /\ pc = "run"
    /\ \E name \in Top.todo :
          /\ is_alias_file(Join(Top.src, name))
          /\ CopyItemStep(name, "unresolved")
    /\ UNCHANGED <<envVars, twiceVars, ext, chain>>

\* An alias whose chain resolves: the target copied under the alias's name.
CopyItemResolvedAlias ==
    /\ pc = "run"
    /\ \E name \in Top.todo :
          /\ is_alias_file(Join(Top.src, name))
          /\ CopyItemStep(name, "resolved")
    /\ UNCHANGED <<envVars, twiceVars, ext, chain>>

\* A directory that is neither an alias nor a link.
CopyItemDirectory ==
    /\ pc = "run"
    /\ \E name \in Top.todo :
          /\ ~is_alias_file(Join(Top.src, name))
          /\ CopyItemStep(name, "dir")
    /\ UNCHANGED <<envVars, twiceVars, ext, chain>>

\* Anything else: a regular file or a symbolic link.
CopyItemFile ==
    /\ pc = "run"
    /\ \E name \in Top.todo :
          /\ ~is_alias_file(Join(Top.src, name))
          /\ CopyItemStep(name, "file")
    /\ UNCHANGED <<envVars, twiceVars, ext, chain>>

\* copy_directory's loop is over: back in the caller, or main returns 0.
ReturnFromDirectory ==
    /\ pc = "run"
    /\ Top.todo = {}
    /\ IF Len(stack) = 1
       THEN Finish(0)
       ELSE /\ stack' = SubSeq(stack, 1, Len(stack) - 1)
            /\ UNCHANGED <<pc, exitCode>>
    /\ UNCHANGED <<dtree, last, visited>>
    /\ UNCHANGED <<envVars, twiceVars, ext, chain>>

Next ==
    \/ MainReject
    \/ MainEnsureRaises
    \/ MainCopy
    \/ CopyItemUnresolvedAlias
    \/ CopyItemResolvedAlias
    \/ CopyItemDirectory
    \/ CopyItemFile
    \/ ReturnFromDirectory

Spec == Init /\ [][Next]_vars

\* The same command again, on the same source and the destination as it was.
SecondRun ==
    /\ pc = "done"
    /\ run = 1
    /\ first' = [tree |-> dtree, exitCode |-> exitCode]
    /\ run' = 2
    /\ pc' = "start"
    /\ exitCode' = -1
    /\ dtree' = InitialTree(args)
    /\ last' = NoLast
    /\ visited' = {}
    /\ UNCHANGED <<stack, envVars, ext, chain>>

NextTwice == Next \/ SecondRun

\* For two runs: the command lines main accepts and one it refuses, the
\* chain entered at its first or at its last alias, and no alias of a
\* directory that holds it.
InitTwice ==
    InitFor(AOptions \ ({SrcRoot} \cup (ChainNodes \ {ChainNode(1), ChainNode(ChainLen)})),
            DOptions \ {EntryD},
            {c \in CommandLines :
                c.platform = "darwin" /\ c.destination \in {DestO, DestSx}})

SpecTwice == InitTwice /\ [][NextTwice]_vars

(***************************************************************************)
(* The claims about the copy                                               *)
(***************************************************************************)
Acted == last.branch # "none"

\* From p on: k aliases, every hop resolving, then a regular file.
ChainToFile(p, k) ==
    /\ \A j \in 0..(k - 1) : probe[Hop(p, j)] /\ Truthy(Hop(p, j + 1))
    /\ Hop(p, k) \in DOMAIN kind
    /\ kind[Hop(p, k)] = "file"
    /\ ~probe[Hop(p, k)]

\* C1: an alias entry whose chain of k aliases (1 <= k <= 10) ends in a
\* regular file is copied as exactly one file: the final target's content,
\* under the entry's destination name with the target's extension appended
\* unless the name already ends with it (case-insensitively) or there is none.
C1_AliasToFile ==
    \A k \in 1..MaxDepth :
        (Acted /\ probe[last.src] /\ ChainToFile(last.src, k)) =>
            /\ ~last.raised
            /\ last.wrote = NameFor(last.dest, Hop(last.src, k), FALSE)
            /\ dtree[last.wrote] = [kind |-> "file", content |-> Hop(last.src, k)]

\* One of the first n hops from p fails: hop j + 1, reached by j hops that
\* each led from an alias to another path.
FailedHopWithin(p, n) ==
    \E j \in 0..(n - 1) :
        /\ \A i \in 0..(j - 1) :
              /\ probe[Hop(p, i)]
              /\ Truthy(Hop(p, i + 1))
              /\ Hop(p, i + 1) # Hop(p, i)
        /\ probe[Hop(p, j)]
        /\ ~Truthy(Hop(p, j + 1))

\* Some hop made while the entry p is processed fails: copy_item's call makes
\* the first MaxDepth hops, copy_target's call up to as many again.
FailedHop(p) == FailedHopWithin(p, 2 * MaxDepth)

Inside(inner, outer) ==
    LET ci == Comps(inner, 1, <<>>)
        co == Comps(outer, 1, <<>>)
    IN  Len(co) <= Len(ci) /\ SubSeq(ci, 1, Len(co)) = co

\* The command lines main has to refuse.
RejectCase ==
    LET source == Abspath(args.source)
        destination == Abspath(args.destination)
    IN  \/ ~SrcIsDir(source)
        \/ RealPath(source) = RealPath(destination)
        \/ Inside(RealPath(destination), RealPath(source))
        \/ /\ DExists(InitialTree(args), destination)
           /\ ~DIsDir(InitialTree(args), destination)

C5_SameTreeTwice ==
    (run = 2 /\ pc = "done" /\ args.dest \in {"absent", "dir"}) =>
        dtree = first.tree

\* C6: an entry the probe does not report as an alias is copied as it is,
\* with no resolver call and no warning: a directory that is no link has its
\* destination directory ensured and its entries queued under their own
\* names; anything else is copied, links not followed, to exactly dest_path.
C6_NonAliasLiteral ==
    (Acted /\ ~probe[last.src]) =>
        /\ last.branch \in {"dir", "file"}
        /\ ~last.warned
        /\ last.hops = 0
        /\ IF SrcIsDir(last.src) /\ ~SrcIsLink(last.src)
           THEN /\ ~last.raised
                /\ DIsDir(dtree, last.dest)
                /\ last.pushed = [src |-> last.src, dst |-> last.dest,
                                  todo |-> Scandir(last.src)]
           ELSE /\ ~last.follow
                /\ last.wrote = last.dest
                /\ dtree[last.dest] =
                     IF SrcIsLink(last.src)
                     THEN [kind |-> "symlink", to |-> linkTo[last.src]]
                     ELSE [kind |-> "file", content |-> last.src]

LeadsTo(t, n) ==
    /\ \A j \in 0..(n - 1) :
          /\ probe[Hop(t, j)]
          /\ Truthy(Hop(t, j + 1))
          /\ Hop(t, j + 1) # Hop(t, j)
    /\ ~probe[Hop(t, n)]

NestingDepth ==
    IF \/ kind[EntryD] = "dir"
       \/ kind[EntryAx] = "dir"
       \/ TDir \in {Hop(EntryA, n) : n \in 1..(2 * MaxDepth)}
    THEN 2
    ELSE 1

\* C9: the copy_directory calls never nest deeper than the directories of the
\* tree being copied, and no entry is processed a second time.
C9_DepthIsNesting ==
    run = 1 =>
        /\ Len(stack) <= NestingDepth
        /\ Acted => ~last.again

=============================================================================
